---------------------------- MODULE Spec2Model ----------------------------
(***************************************************************************)
(* A model of the pager core of libgavran.                                 *)
(*                                                                         *)
(*   - the free-range search of src/src/bitmap.c, translated function by   *)
(*     function (SpecBitmap; SpecBitmapWide for requests larger than the   *)
(*     bitmap);                                                            *)
(*   - the page-metadata placement of ch05, Listing 5.3 (SpecMeta);        *)
(*   - the pager: allocate_page / free_page / modify_page / get_page /     *)
(*     commit over a small file (Spec);                                    *)
(*   - the thread-local error channel of Listing 1.4 to 1.6 (SpecErrors);  *)
(*   - the file primitives of ch02: create_file,                           *)
(*     ensure_file_minimum_size and close_file (SpecFiles), write_file     *)
(*     (SpecWrite);                                                        *)
(*   - threads running transactions on one database (SpecTxn).             *)
(*                                                                         *)
(* Widths.  The C code works on uint64_t words and size_t positions.  The  *)
(* model keeps both as modular integers but with smaller widths, so that   *)
(* every bitmap of a few words can be enumerated: a bitmap word has        *)
(* WordBits bits (64 in the code) and position arithmetic is done modulo   *)
(* 2^SizeBits (2^64 in the code).  Every "64" of bitmap.c that stands for  *)
(* the number of bits of a word is WordBits here.                          *)
(***************************************************************************)
EXTENDS Integers, Sequences, FiniteSets, TLC

VARIABLES
    fr,     \* SpecBitmap: one call of find_free_range_in_bitmap and its result
    mo,     \* SpecMeta: calls of get_metadata_page_offset and their results
    db,     \* Spec: the data file, page number -> page content (what readers map)
    tx,     \* Spec: the writing transaction (dirty set) and the caller's handles
    hist,   \* Spec: what the last pager call was given and what it returned
    er,     \* SpecErrors: the error channel of one thread and its last call
    fs,     \* SpecFiles: the directories, the file, its handle and the system calls made
    wr,     \* SpecWrite: the bytes of the file and the last call of write_file
    cc      \* SpecTxn: the threads, their transactions and the writer mutex

vars == <<fr, mo, db, tx, hist, er, fs, wr, cc>>

(***************************************************************************)
(* Bounds of the model.                                                    *)
(***************************************************************************)
WordBits == 4       \* bits of one bitmap word (uint64_t in the code)
SizeBits == 8       \* bits of size_t / uint64_t position arithmetic
MaxWords == 3       \* SpecBitmap: the largest bitmap_size that is enumerated
MaxRequired == 6    \* SpecBitmap: the largest ordinary size_required

Pow2(n) == 2 ^ n

\* ULONG_MAX / SIZE_MAX as a position (size_t) value.
SizeModulus == Pow2(SizeBits)
ULONG_MAX == SizeModulus - 1
SIZE_MAX == SizeModulus - 1
\* ULONG_MAX as a bitmap word: all bits set.
FULL_WORD == Pow2(WordBits) - 1

\* unsigned arithmetic of the code, wrapping at the width of size_t
Wrap(x) == x % SizeModulus

\* F(e), with e evaluated once and handed to F as a value
Once(e, F(_)) == CHOOSE r \in {F(v) : v \in {e}} : TRUE

(***************************************************************************)
(* Bit operations on words (naturals below 2^WordBits).                    *)
(***************************************************************************)
RECURSIVE ctzl(_)
\* __builtin_ctzl: index of the lowest set bit (the code calls it on x # 0 only)
ctzl(x) == IF x % 2 = 1 THEN 0 ELSE 1 + ctzl(x \div 2)

\* bitset ^= (bitset & -bitset): clear the lowest set bit
ClearLowestBit(x) == x - Pow2(ctzl(x))

\* current |= ~(ULONG_MAX << k): set the k lowest bits, 0 < k < WordBits
OrLowMask(x, k) == (x \div Pow2(k)) * Pow2(k) + (Pow2(k) - 1)

\* is bit pos of the bitmap (a function 0..n-1 -> word) set?
BitIsSet(words, pos) == (words[pos \div WordBits] \div Pow2(pos % WordBits)) % 2 = 1

(***************************************************************************)
(* src/src/bitmap.c                                                        *)
(***************************************************************************)
\* struct selected_range
SelectedRange(p, s) == [position |-> p, size_available |-> s]

\* init_range that asks the search for one bit, whatever the caller required
init_range_one_bit(bitmap, bitmap_size, size_required) ==
    [ bitmap           |-> bitmap,
      bitmap_size      |-> bitmap_size,
      size_required    |-> 1,
      index            |-> 0,
      selection        |-> SelectedRange(0, 0),
      current          |-> bitmap[0],
      current_set_bit  |-> 0,
      previous_set_bit |-> ULONG_MAX ]

\* init_range: the fields the code leaves uninitialised (selection,
\* current_set_bit) are never read before they are written; they start at 0.
init_range(bitmap, bitmap_size, size_required) ==
    [ bitmap           |-> bitmap,
      bitmap_size      |-> bitmap_size,
      size_required    |-> size_required,
      index            |-> 0,
      selection        |-> SelectedRange(0, 0),
      current          |-> bitmap[0],
      current_set_bit  |-> 0,
      previous_set_bit |-> ULONG_MAX ]

\* Every search function returns [ok |-> its bool result, range |-> the struct after].
handle_zero_word(range) ==
    LET cs  == Wrap((range.index + 1) * WordBits)
        r1  == [range EXCEPT !.current_set_bit = cs]
        pos == Wrap(range.previous_set_bit + 1)
    IN  IF cs > Wrap(range.previous_set_bit + range.size_required)
        THEN [ok |-> TRUE,
              range |-> [r1 EXCEPT !.selection = SelectedRange(pos, Wrap(cs - pos))]]
        ELSE [ok |-> FALSE, range |-> r1]

RECURSIVE find_range_loop(_, _)
\* the while (bitset != 0) loop of find_range_once and the call that follows it
find_range_loop(range, bitset) ==
    IF bitset = 0
    THEN handle_zero_word(range)
    ELSE LET cs == Wrap(range.index * WordBits + ctzl(bitset))
             r1 == [range EXCEPT !.current_set_bit = cs]
             pos == Wrap(range.previous_set_bit + 1)
         IN  IF cs > Wrap(range.previous_set_bit + range.size_required)
             THEN [ok |-> TRUE,
                   range |-> [r1 EXCEPT !.selection = SelectedRange(pos, Wrap(cs - pos)),
                                        !.previous_set_bit = cs]]
             ELSE find_range_loop([r1 EXCEPT !.previous_set_bit = cs],
                                  ClearLowestBit(bitset))

find_range_once(range) ==
    IF range.current = FULL_WORD
    THEN [ok |-> FALSE,
          range |-> [range EXCEPT
                       !.previous_set_bit = Wrap((range.index + 1) * WordBits - 1)]]
    ELSE IF range.current = 0
    THEN handle_zero_word(range)
    ELSE find_range_loop(range, range.current)

RECURSIVE find_next_range(_)
find_next_range(range) ==
    LET once == find_range_once(range)
        r1   == once.range
    IN  IF once.ok
        THEN IF r1.current_set_bit % WordBits # 0
             THEN \* mask the already found item
                  [ok |-> TRUE,
                   range |-> [r1 EXCEPT !.current =
                                OrLowMask(r1.current, r1.current_set_bit % WordBits)]]
             ELSE IF r1.index + 1 < r1.bitmap_size
             THEN \* continue: the search goes on in the next word
                  find_next_range([r1 EXCEPT !.index = r1.index + 1,
                                             !.current = r1.bitmap[r1.index + 1]])
             ELSE [ok |-> TRUE, range |-> [r1 EXCEPT !.current = FULL_WORD]]
        ELSE IF r1.index + 1 >= r1.bitmap_size
             THEN [ok |-> FALSE, range |-> [r1 EXCEPT !.index = r1.index + 1]]
             ELSE find_next_range([r1 EXCEPT !.index = r1.index + 1,
                                             !.current = r1.bitmap[r1.index + 1]])

\* One word of distance: the code's 64, which is the width of a bitmap word.
MAX_DISTANCE_TO_SEARCH_BEST_MATCH == WordBits

RECURSIVE find_smallest_loop(_, _, _)
\* the while (find_next_range(range)) loop; current is the local best candidate.
\* terminates is FALSE when a pass leaves the range and the candidate exactly as
\* it found them: every later pass does the same and the loop never ends.
find_smallest_loop(range, current, search_nearby) ==
    Once(find_next_range(range), LAMBDA next :
    LET boundary == Wrap(MAX_DISTANCE_TO_SEARCH_BEST_MATCH + range.size_required)
        r1   == next.range
        cur1 == IF current.size_available > r1.selection.size_available
                THEN r1.selection ELSE current
    IN  IF ~next.ok
        THEN [ok |-> current.size_available # SIZE_MAX, terminates |-> TRUE,
              range |-> [r1 EXCEPT !.selection = current]]
        ELSE IF r1.size_required = r1.selection.size_available
        THEN [ok |-> TRUE, terminates |-> TRUE, range |-> r1]
        ELSE IF search_nearby /\ r1.selection.position > boundary
        THEN \* gone too far: stop being choosy
             [ok |-> TRUE, terminates |-> TRUE,
              range |-> IF cur1.size_available < r1.selection.size_available
                        THEN [r1 EXCEPT !.selection = cur1] ELSE r1]
        ELSE IF r1 = range /\ cur1 = current
        THEN [ok |-> FALSE, terminates |-> FALSE, range |-> r1]
        ELSE Once(cur1, LAMBDA c : find_smallest_loop(r1, c, search_nearby)))

\* first fit: the first sufficient run, whatever its length
find_smallest_nearby_range_first_fit(range, search_nearby) ==
    find_next_range(range) @@ [terminates |-> TRUE]

find_smallest_nearby_range(range, search_nearby) ==
    find_smallest_loop(range, SelectedRange(0, SIZE_MAX), search_nearby)

\* bitmap + high, seen as an array of n words
SubBitmap(bitmap, high, n) == [i \in 0 .. n - 1 |-> bitmap[i + high]]

\* a search that clears *bit_pos before it looks at its arguments and finds nothing
find_free_range_in_bitmap_clears_bit_pos(bitmap, bitmap_size, size_required, near_pos, bit_pos) ==
    [ok |-> FALSE, bit_pos |-> 0, terminates |-> TRUE]

\* Returns [ok, bit_pos, terminates]; bit_pos is the caller's value when nothing
\* is written, terminates is FALSE when the call never returns.
find_free_range_in_bitmap(bitmap, bitmap_size, size_required, near_pos, bit_pos) ==
    IF size_required = 0 \/ near_pos \div WordBits >= bitmap_size
    THEN [ok |-> FALSE, bit_pos |-> bit_pos, terminates |-> TRUE]
    ELSE LET high  == near_pos \div WordBits
             fwd   == find_smallest_nearby_range(
                          init_range(SubBitmap(bitmap, high, bitmap_size - high),
                                     bitmap_size - high, size_required),
                          high # 0)
         IN  IF ~fwd.terminates
             THEN [ok |-> FALSE, bit_pos |-> bit_pos, terminates |-> FALSE]
             ELSE IF fwd.ok
             THEN [ok |-> TRUE, terminates |-> TRUE,
                   bit_pos |-> Wrap(fwd.range.selection.position + high * WordBits)]
             ELSE IF high = 0
             THEN [ok |-> FALSE, bit_pos |-> bit_pos, terminates |-> TRUE]
             ELSE LET low == find_next_range(
                                 init_range(SubBitmap(bitmap, 0, high), high,
                                            size_required))
                  IN  IF low.ok
                      THEN [ok |-> TRUE, terminates |-> TRUE,
                            bit_pos |-> low.range.selection.position]
                      ELSE [ok |-> FALSE, bit_pos |-> bit_pos, terminates |-> TRUE]

(***************************************************************************)
(* SpecBitmap: find_free_range_in_bitmap as a function of its arguments.   *)
(* Init draws the bitmap, the action draws size_required and near_pos and  *)
(* records what the call returned.                                         *)
(***************************************************************************)
Bitmaps(n) == [0 .. n - 1 -> 0 .. FULL_WORD]

\* the value *bit_pos holds before the call
CallerBitPos == ULONG_MAX

\* the error channel of a thread that has recorded nothing: MAX_ERRORS codes and
\* message pointers (NullMessage is the null pointer, else an offset into
\* _messages_buffer), the used length of the buffer and the _out_of_memory bits
MAX_ERRORS == 4                  \* 64 in the code
MAX_ERRORS_MSG_BUFFER == 128     \* 2048 in the code
NullMessage == -1
ErIdle ==
    [count |-> 0, codes |-> [i \in 0 .. MAX_ERRORS - 1 |-> 0],
     messages |-> [i \in 0 .. MAX_ERRORS - 1 |-> NullMessage],
     buffer_len |-> 0, out_of_memory |-> 0, wild |-> FALSE,
     op |-> "none", code |-> 0, calls |-> 0]

\* no path given, no file handle filled in
FileBytes == 5        \* SpecWrite: bytes of the file
WrIdle ==
    [file |-> [i \in 0 .. FileBytes - 1 |-> 0], buffer |-> <<>>, offset |-> 0,
     len_to_write |-> 0, file_before |-> [i \in 0 .. FileBytes - 1 |-> 0],
     op |-> "none", ok |-> TRUE, pwrites |-> <<>>, calls |-> 0]

MaxThreads == 3       \* SpecTxn: threads that use the database
MaxTxnPages == 2      \* SpecTxn: pages of the database
MaxTxnSteps == 7      \* SpecTxn: create, modify, commit and close calls in one behaviour
Threads == 1 .. MaxThreads
TxnPages == 0 .. MaxTxnPages - 1
NoCopy == -1          \* the dirty set has no copy of the page
NoThread == 0         \* the writer mutex is free

\* a thread without a transaction
ThreadIdle ==
    [state |-> "none", dirty |-> [p \in TxnPages |-> NoCopy], phase |-> "open",
     pending |-> {}, commit_called |-> FALSE]

\* the database and its threads before any call: every page holds content 0; a
\* modification gives a page a content no page had before (next_content);
\* committed and discarded collect the contents written by transactions that
\* called commit_transaction or were closed without it
CcIdle ==
    [file |-> [p \in TxnPages |-> 0], mutex |-> NoThread,
     th |-> [t \in Threads |-> ThreadIdle], committed |-> {}, discarded |-> {},
     next_content |-> 1, steps |-> 0,
     last |-> [op |-> "none", thread |-> NoThread, page |-> 0, content |-> 0]]

FsIdle ==
    [rooted |-> FALSE, nodes |-> <<>>, length |-> 0, fd |-> "none", open_fds |-> 0,
     op |-> "none", ok |-> TRUE, log |-> <<>>, calls |-> 0, was_new |-> FALSE,
     minimum_size |-> 0, length_before |-> 0, null_handle |-> FALSE]

FrIdle == [bitmap |-> <<>>, bitmap_size |-> 0, called |-> FALSE,
           size_required |-> 0, near_pos |-> 0, ok |-> FALSE, bit_pos |-> CallerBitPos,
           terminates |-> TRUE]
MoIdle == [total |-> 0, calls |-> <<>>]
DbIdle == <<>>
TxIdle == [state |-> "none", dirty |-> <<>>]
HistIdle ==
    [op |-> "none", ok |-> TRUE, page_num |-> 0, overflow_size |-> 0, required |-> 0,
     ops |-> 0, chain |-> "none", alloc_page |-> 0, alloc_size |-> 0, before |-> <<>>]

InitBitmap ==
    /\ \E n \in 1 .. MaxWords : \E b \in Bitmaps(n) :
          fr = [FrIdle EXCEPT !.bitmap = b, !.bitmap_size = n]
    /\ mo = MoIdle
    /\ db = DbIdle
    /\ tx = TxIdle
    /\ hist = HistIdle
    /\ er = ErIdle
    /\ fs = FsIdle
    /\ wr = WrIdle
    /\ cc = CcIdle

FindFreeRange ==
    /\ ~fr.called
    /\ \E size_required \in 0 .. MaxRequired :
       \E near_pos \in 0 .. fr.bitmap_size * WordBits :
          \E res \in {find_free_range_in_bitmap(fr.bitmap, fr.bitmap_size,
                                                size_required, near_pos, fr.bit_pos)} :
              fr' = [fr EXCEPT !.called = TRUE, !.size_required = size_required,
                               !.near_pos = near_pos, !.ok = res.ok,
                               !.bit_pos = res.bit_pos, !.terminates = res.terminates]
    /\ UNCHANGED <<mo, db, tx, hist, er, fs, wr, cc>>

NextBitmap == FindFreeRange

SpecBitmap == InitBitmap /\ [][NextBitmap]_vars

\* number of bits of the bitmap of the recorded call
FrBits == fr.bitmap_size * WordBits

\* bits p .. p+n-1 exist and are all clear
IsFreeRun(words, nbits, p, n) ==
    /\ p + n <= nbits
    /\ \A i \in p .. p + n - 1 : ~BitIsSet(words, i)

\* C1: when find_free_range_in_bitmap returns true with *bit_pos = p, the bits
\* p .. p+size_required-1 are all clear in the bitmap that was passed and
\* p + size_required <= 64 * bitmap_size.
C1_ReturnedRunIsFree ==
    (fr.called /\ fr.ok) =>
        IsFreeRun(fr.bitmap, FrBits, fr.bit_pos, fr.size_required)

\* C2: find_free_range_in_bitmap returns false only when the bitmap holds no run
\* of size_required clear bits: if such a run exists anywhere, the call with
\* size_required >= 1 and an in-range near_pos returns true.
C2_FalseOnlyWhenNoRun ==
    (/\ fr.called
     /\ fr.size_required >= 1
     /\ fr.near_pos \div WordBits < fr.bitmap_size
     /\ \E p \in 0 .. FrBits - 1 : IsFreeRun(fr.bitmap, FrBits, p, fr.size_required))
    => fr.ok

(***************************************************************************)
(* src/ch05/ch05.md, Listing 5.3: where the metadata of a page lives.      *)
(***************************************************************************)
PAGE_SIZE == 8192
SizeofPageMetadata == 16                    \* sizeof(page_metadata_t)
PAGES_IN_METADATA_PAGE == 1024 * 1024

\* Returns [ok, metadata_page_num, metadata_index]; the outputs are written
\* only when the function returns true.
get_metadata_page_offset_no_page_step(total_number_of_pages, page_num) ==
    IF page_num >= total_number_of_pages
    THEN [ok |-> FALSE, metadata_page_num |-> 0, metadata_index |-> 0]
    ELSE LET metadata_page_end ==
                 page_num + (PAGES_IN_METADATA_PAGE - (page_num % PAGES_IN_METADATA_PAGE))
             full == metadata_page_end < total_number_of_pages
             section_size_bytes ==
                 IF full
                 THEN PAGES_IN_METADATA_PAGE * SizeofPageMetadata
                 ELSE (total_number_of_pages % PAGES_IN_METADATA_PAGE) * SizeofPageMetadata
             section_size_pages ==
                 section_size_bytes \div PAGE_SIZE +
                 (IF section_size_bytes % PAGE_SIZE # 0 THEN 1 ELSE 0)
             metadata_page_start ==
                 (IF full THEN metadata_page_end ELSE total_number_of_pages)
                 - section_size_pages
             index_of_metadata_in_section == page_num % PAGES_IN_METADATA_PAGE
         IN  [ok |-> TRUE,
              metadata_page_num |-> metadata_page_start,
              metadata_index |-> index_of_metadata_in_section %
                                     (PAGE_SIZE \div SizeofPageMetadata)]

get_metadata_page_offset(total_number_of_pages, page_num) ==
    IF page_num >= total_number_of_pages
    THEN [ok |-> FALSE, metadata_page_num |-> 0, metadata_index |-> 0]
    ELSE LET metadata_page_end ==
                 page_num + (PAGES_IN_METADATA_PAGE - (page_num % PAGES_IN_METADATA_PAGE))
             full == metadata_page_end < total_number_of_pages
             section_size_bytes ==
                 IF full
                 THEN PAGES_IN_METADATA_PAGE * SizeofPageMetadata
                 ELSE (total_number_of_pages % PAGES_IN_METADATA_PAGE) * SizeofPageMetadata
             section_size_pages ==
                 section_size_bytes \div PAGE_SIZE +
                 (IF section_size_bytes % PAGE_SIZE # 0 THEN 1 ELSE 0)
             metadata_page_start ==
                 (IF full THEN metadata_page_end ELSE total_number_of_pages)
                 - section_size_pages
             index_of_metadata_in_section == page_num % PAGES_IN_METADATA_PAGE
             index_of_page_in_section ==
                 index_of_metadata_in_section \div (PAGE_SIZE \div SizeofPageMetadata)
         IN  [ok |-> TRUE,
              metadata_page_num |-> metadata_page_start + index_of_page_in_section,
              metadata_index |-> index_of_metadata_in_section %
                                     (PAGE_SIZE \div SizeofPageMetadata)]

(***************************************************************************)
(* SpecMeta: get_metadata_page_offset as a function of its arguments.      *)
(* Init draws the size of the file, the action draws a page number and     *)
(* records the call; the last two calls are kept.                          *)
(***************************************************************************)
MetaWindow == 2     \* how far around each interesting value the inputs are drawn

Around(x) == {y \in x - MetaWindow .. x + MetaWindow : y >= 0}

RecordsPerPage == PAGE_SIZE \div SizeofPageMetadata

\* file sizes in pages: tiny files, the default 16-page file, one and two metadata
\* pages, the 1 GiB and 10 GiB files of the worked examples, files that end at
\* or next to the end of a range
MetaTotals ==
    UNION {Around(t) : t \in {1, 16, RecordsPerPage, 2 * RecordsPerPage, 131072,
                              PAGES_IN_METADATA_PAGE,
                              PAGES_IN_METADATA_PAGE + RecordsPerPage,
                              1310720, 2 * PAGES_IN_METADATA_PAGE}} \ {0}

MetaPages(total) ==
    UNION {Around(q) : q \in {0, 5, RecordsPerPage, 35225,
                              PAGES_IN_METADATA_PAGE - RecordsPerPage,
                              PAGES_IN_METADATA_PAGE,
                              PAGES_IN_METADATA_PAGE + RecordsPerPage,
                              1189786, total}}

InitMeta ==
    /\ \E t \in MetaTotals : mo = [total |-> t, calls |-> <<>>]
    /\ fr = FrIdle
    /\ db = DbIdle
    /\ tx = TxIdle
    /\ hist = HistIdle
    /\ er = ErIdle
    /\ fs = FsIdle
    /\ wr = WrIdle
    /\ cc = CcIdle

MetaLookup ==
    /\ \E page_num \in MetaPages(mo.total) :
          LET res  == get_metadata_page_offset(mo.total, page_num)
              call == [page_num |-> page_num, ok |-> res.ok,
                       metadata_page_num |-> res.metadata_page_num,
                       metadata_index |-> res.metadata_index]
          IN  mo' = [mo EXCEPT !.calls =
                        IF Len(@) < 2 THEN Append(@, call) ELSE <<@[2], call>>]
    /\ UNCHANGED <<fr, db, tx, hist, er, fs, wr, cc>>

NextMeta == MetaLookup

SpecMeta == InitMeta /\ [][NextMeta]_vars

MoCalls == {mo.calls[i] : i \in 1 .. Len(mo.calls)}

\* C6: for page_num < total the lookup succeeds with a metadata page inside the
\* file and inside the range of S pages of page_num, and an index below 512;
\* also for files whose length is an exact multiple of S pages.
C6_MetadataPageInsideFileAndRange ==
    \A c \in MoCalls :
        c.page_num < mo.total =>
            /\ c.ok
            /\ c.metadata_page_num < mo.total
            /\ c.metadata_page_num \div PAGES_IN_METADATA_PAGE
                   = c.page_num \div PAGES_IN_METADATA_PAGE
            /\ c.metadata_index < 512

\* C7: for one file size, distinct page numbers below it get distinct
\* (metadata_page_num, metadata_index) pairs.
C7_DistinctPagesDistinctRecords ==
    \A c \in MoCalls : \A d \in MoCalls :
        (c.ok /\ d.ok /\ c.page_num # d.page_num) =>
            <<c.metadata_page_num, c.metadata_index>>
                # <<d.metadata_page_num, d.metadata_index>>

\* witness of C7: two pages of one range whose records have the same index in
\* two different metadata pages
C7_Witness ==
    \E c \in MoCalls : \E d \in MoCalls :
        /\ c.ok /\ d.ok
        /\ d.page_num = c.page_num + 512
        /\ c.page_num \div PAGES_IN_METADATA_PAGE = d.page_num \div PAGES_IN_METADATA_PAGE
        /\ c.metadata_index = d.metadata_index
        /\ c.metadata_page_num # d.metadata_page_num

\* the lookup as the specification words it (steps 1 to 7 of section 4.D)
SpecLookup(total_pages, page_num) ==
    LET S == PAGES_IN_METADATA_PAGE
        range_end == ((page_num \div S) + 1) * S
        section_bytes == IF range_end <= total_pages THEN S * 16
                         ELSE (total_pages % S) * 16
        section_pages == (section_bytes + 8191) \div 8192
        section_start_page == (IF range_end <= total_pages THEN range_end
                               ELSE total_pages) - section_pages
        index_within_section == page_num % S
    IN  <<section_start_page + (index_within_section \div 512),
          index_within_section % 512>>

\* C8: for page_num < total_pages the code returns the (metadata_page,
\* index_in_page) of the specification's lookup.
C8_CodeMatchesSpecLookup ==
    \A c \in MoCalls :
        c.page_num < mo.total =>
            /\ c.ok
            /\ <<c.metadata_page_num, c.metadata_index>> = SpecLookup(mo.total, c.page_num)

(***************************************************************************)
(* The pager (Spec).  The file has FilePages pages: page 0 is the header,  *)
(* page 1 the free-space bitmap (one bit per page, FileWords words), the   *)
(* last page the metadata section that get_metadata_page_offset gives for  *)
(* a file this small; every other page is payload.  db is the file as the  *)
(* read-only mapping shows it; the writing transaction keeps its writable  *)
(* page copies in tx.dirty and commit writes them to db.                   *)
(***************************************************************************)
FileWords == 3      \* words of the free-space bitmap; the file has one page per bit
MaxOps == 3         \* modifying calls (allocate, free, modify, write) in one run

FilePages == FileWords * WordBits
Pages == 0 .. FilePages - 1

\* enum page_flags
page_free == 0
page_single == 1
page_overflow_first == 2
page_overflow_rest == 4
page_metadata == 8

\* a page_metadata_t after memset(metadata, 0, sizeof(page_metadata_t))
ZeroMetadata == [overflow_size |-> 0, flags |-> page_free]

HeaderPage == 0
FirstBitmapPage == 1
\* pages of the bitmap: one bit per page of the file
BitmapPages == FirstBitmapPage ..
               FirstBitmapPage + ((FilePages + 8 * PAGE_SIZE - 1) \div (8 * PAGE_SIZE)) - 1
\* busy_pages of Listing 5.4: the header and the free-space bitmap
busy_pages == 1 + Cardinality(BitmapPages)

\* first page and number of pages of the metadata section of the range of page i
get_metadata_section_stats(total_number_of_pages, i) ==
    LET range_end == ((i \div PAGES_IN_METADATA_PAGE) + 1) * PAGES_IN_METADATA_PAGE
        full == range_end <= total_number_of_pages
        records == IF full THEN PAGES_IN_METADATA_PAGE
                   ELSE total_number_of_pages % PAGES_IN_METADATA_PAGE
        section_pages == (records * SizeofPageMetadata + PAGE_SIZE - 1) \div PAGE_SIZE
    IN  [page_num |-> (IF full THEN range_end ELSE total_number_of_pages) - section_pages,
         section_pages |-> section_pages]

MetadataPages ==
    UNION { LET st == get_metadata_section_stats(FilePages, i)
            IN  st.page_num .. st.page_num + st.section_pages - 1
          : i \in {k * PAGES_IN_METADATA_PAGE :
                     k \in 0 .. (FilePages - 1) \div PAGES_IN_METADATA_PAGE} }

StructuralPages == {HeaderPage} \cup BitmapPages \cup MetadataPages

\* bit operations on the bitmap page (an array of words)
SetBit(words, pos) ==
    IF BitIsSet(words, pos) THEN words
    ELSE [words EXCEPT ![pos \div WordBits] = @ + Pow2(pos % WordBits)]

ClearBit(words, pos) ==
    IF BitIsSet(words, pos)
    THEN [words EXCEPT ![pos \div WordBits] = @ - Pow2(pos % WordBits)]
    ELSE words

(***************************************************************************)
(* Page I/O of a transaction.  dirty is the dirty set: page number ->      *)
(* writable copy.                                                          *)
(***************************************************************************)
\* the page as the transaction sees it: its dirty copy, else the mapping
ReadPage(dirty, page_num) ==
    IF page_num \in DOMAIN dirty THEN dirty[page_num] ELSE db[page_num]

\* pin a writable copy of the page (copy on first modification)
PinPage(dirty, page_num) ==
    IF page_num \in DOMAIN dirty THEN dirty
    ELSE (page_num :> db[page_num]) @@ dirty

\* the page's content replaced in its writable copy
WritePage(dirty, page_num, content) ==
    (page_num :> content) @@ dirty

\* get_page_metadata: [ok, metadata]
get_page_metadata(dirty, page_num) ==
    LET off == get_metadata_page_offset(FilePages, page_num)
    IN  IF ~off.ok THEN [ok |-> FALSE, metadata |-> ZeroMetadata]
        ELSE [ok |-> TRUE,
              metadata |-> ReadPage(dirty, off.metadata_page_num)[off.metadata_index]]

\* modify_page_metadata followed by the caller's assignment of the record:
\* [ok, dirty]
modify_page_metadata(dirty, page_num, metadata) ==
    LET off == get_metadata_page_offset(FilePages, page_num)
        d1  == PinPage(dirty, off.metadata_page_num)
    IN  IF ~off.ok THEN [ok |-> FALSE, dirty |-> dirty]
        ELSE [ok |-> TRUE,
              dirty |-> WritePage(d1, off.metadata_page_num,
                           [d1[off.metadata_page_num] EXCEPT ![off.metadata_index] = metadata])]

\* which bitmap page and which bit in it hold the bit of a page
BitmapPageOf(page_num) == FirstBitmapPage + page_num \div (8 * PAGE_SIZE)

mark_page_as_busy(dirty, page_num) ==
    LET bp == BitmapPageOf(page_num)
        d1 == PinPage(dirty, bp)
    IN  WritePage(d1, bp, SetBit(d1[bp], page_num % (8 * PAGE_SIZE)))

mark_page_as_free(dirty, page_num) ==
    LET bp == BitmapPageOf(page_num)
        d1 == PinPage(dirty, bp)
    IN  WritePage(d1, bp, ClearBit(d1[bp], page_num % (8 * PAGE_SIZE)))

\* number of pages of a value of overflow_size bytes
PagesFor(overflow_size) ==
    IF overflow_size = 0 THEN 1 ELSE (overflow_size + PAGE_SIZE - 1) \div PAGE_SIZE

(***************************************************************************)
(* initialize_file_structure: the file after the first open has committed. *)
(***************************************************************************)
\* the records a metadata page of this file holds
RecordsInFile == IF FilePages < RecordsPerPage THEN FilePages ELSE RecordsPerPage

\* the preallocated, zero-filled file with its header written
EmptyFile ==
    [p \in Pages |->
        IF p = HeaderPage
        THEN [number_of_pages |-> FilePages,
              pages_in_metadata_section |-> PAGES_IN_METADATA_PAGE]
        ELSE IF p \in BitmapPages THEN [w \in 0 .. FileWords - 1 |-> 0]
        ELSE IF p \in MetadataPages THEN [i \in 0 .. RecordsInFile - 1 |-> ZeroMetadata]
        ELSE 0]

RECURSIVE register_metadata(_, _, _)
\* for (j = 0; j < count; j++): the record of page first + j becomes
\* page_single | page_metadata
register_metadata(dirty, first, count) ==
    IF count = 0 THEN dirty
    ELSE Once(modify_page_metadata(dirty, first,
                  [overflow_size |-> 0, flags |-> page_single + page_metadata]).dirty,
              LAMBDA d : register_metadata(d, first + 1, count - 1))

RECURSIVE register_sections(_, _)
\* for (i = 0; i < number_of_pages; i += PAGES_IN_METADATA_PAGE)
register_sections(dirty, i) ==
    IF i >= FilePages THEN dirty
    ELSE LET st == get_metadata_section_stats(FilePages, i)
         IN  Once(register_metadata(dirty, st.page_num, st.section_pages),
                  LAMBDA d : register_sections(d, i + PAGES_IN_METADATA_PAGE))

RECURSIVE mark_pages_as_busy(_, _)
mark_pages_as_busy(dirty, pages) ==
    IF pages = {} THEN dirty
    ELSE LET q == CHOOSE x \in pages : TRUE
         IN  Once(mark_page_as_busy(dirty, q),
                  LAMBDA d : mark_pages_as_busy(d, pages \ {q}))

\* initialisation without the loop over the metadata sections
initialize_file_structure_without_sections ==
    Once(EmptyFile, LAMBDA d0 :
    Once(mark_pages_as_busy(d0, 0 .. busy_pages - 1 \cup MetadataPages), LAMBDA d1 :
    register_metadata(d1, 0, busy_pages)))

\* The initialisation transaction works on copies of every page of the empty
\* file and commits them all.
initialize_file_structure ==
    Once(EmptyFile, LAMBDA d0 :
    Once(mark_pages_as_busy(d0, 0 .. busy_pages - 1 \cup MetadataPages), LAMBDA d1 :
    Once(register_metadata(d1, 0, busy_pages), LAMBDA d2 :
    register_sections(d2, 0))))

(***************************************************************************)
(* allocate_page and free_page on the dirty set of the transaction.        *)
(***************************************************************************)
\* the record of a run whose rest pages repeat the size of the first page
AllocatedMetadata_same_size(required_size, j, overflow_size) ==
    IF required_size = 1
    THEN [overflow_size |-> 0, flags |-> page_single]
    ELSE [overflow_size |-> overflow_size,
          flags |-> IF j = 0 THEN page_overflow_first ELSE page_overflow_rest]

\* the record allocate_page writes for page pos + j of a run
AllocatedMetadata(required_size, j, overflow_size) ==
    IF required_size = 1
    THEN [overflow_size |-> 0, flags |-> page_single]
    ELSE IF j = 0
    THEN [overflow_size |-> overflow_size, flags |-> page_overflow_first]
    ELSE [overflow_size |-> overflow_size - j * PAGE_SIZE, flags |-> page_overflow_rest]

RECURSIVE allocate_mark_loop(_, _, _, _, _)
\* for (j = 0; j < required_size; j++) of allocate_page: [ok, dirty]
allocate_mark_loop(dirty, pos, j, required_size, overflow_size) ==
    IF j >= required_size THEN [ok |-> TRUE, dirty |-> dirty]
    ELSE IF pos + j >= FilePages THEN [ok |-> FALSE, dirty |-> dirty]
    ELSE Once(mark_page_as_busy(dirty, pos + j), LAMBDA d1 :
         Once(modify_page_metadata(d1, pos + j,
                  AllocatedMetadata(required_size, j, overflow_size)), LAMBDA m :
         IF ~m.ok THEN [ok |-> FALSE, dirty |-> d1]
         ELSE allocate_mark_loop(m.dirty, pos, j + 1, required_size, overflow_size)))

\* [ok, dirty, page_num, required]
allocate_page(dirty, overflow_size, near_page) ==
    Once(PagesFor(overflow_size), LAMBDA required_size :
    Once(ReadPage(dirty, FirstBitmapPage), LAMBDA bitmap :
    Once(find_free_range_in_bitmap(bitmap, FileWords, required_size, near_page, 0),
         LAMBDA found :
    IF ~found.ok
    THEN [ok |-> FALSE, dirty |-> dirty, page_num |-> 0, required |-> required_size]
    ELSE Once(allocate_mark_loop(dirty, found.bit_pos, 0, required_size, overflow_size),
              LAMBDA marked :
         [ok |-> marked.ok, dirty |-> marked.dirty, page_num |-> found.bit_pos,
          required |-> required_size]))))

RECURSIVE mark_run_as_free(_, _, _)
mark_run_as_free(dirty, page_num, count) ==
    IF count = 0 \/ page_num >= FilePages THEN dirty
    ELSE Once(mark_page_as_free(dirty, page_num),
              LAMBDA d : mark_run_as_free(d, page_num + 1, count - 1))

\* [ok, dirty]
free_page(dirty, page_num) ==
    Once(get_page_metadata(dirty, page_num), LAMBDA before :
    Once(modify_page_metadata(dirty, page_num, ZeroMetadata), LAMBDA zeroed :
    IF ~zeroed.ok THEN [ok |-> FALSE, dirty |-> dirty]
    ELSE [ok |-> TRUE,
          dirty |-> mark_run_as_free(zeroed.dirty, page_num,
                                     PagesFor(before.metadata.overflow_size))]))

(***************************************************************************)
(* Spec: one writing transaction at a time over the file, and readers of   *)
(* the mapping.  hist keeps the last call and, after an allocate_page, the *)
(* bitmap and the metadata records as they were before it.                 *)
(***************************************************************************)
\* value sizes asked of allocate_page: one page (0 and a full page), two and three
AllocSizes == {0, PAGE_SIZE, PAGE_SIZE + 1, 2 * PAGE_SIZE + 1}

\* near_page: find_free_range_in_bitmap uses near_pos / 64 only, so the first
\* page of each bitmap word stands for the pages of that word
NearPages == {k * WordBits : k \in 0 .. FileWords - 1}

PayloadPages == Pages \ StructuralPages

\* page numbers given to free_page by callers: the payload pages that are in
\* use (busy in the bitmap or with a metadata record that is not free) and one
\* page number past the end of the file
CallerPages(dirty) ==
    {q \in PayloadPages : \/ BitIsSet(ReadPage(dirty, FirstBitmapPage), q)
                          \/ get_page_metadata(dirty, q).metadata.flags # page_free}
    \cup {FilePages}

\* page numbers given to modify_page and get_page: the page of the handle the
\* last allocate_page filled in, the lowest payload page and one page number
\* past the end of the file
HandlePages ==
    {hist.alloc_page, FilePages} \cup {q \in PayloadPages : \A r \in PayloadPages : q <= r}

\* the bitmap and every metadata record as a transaction with this dirty set sees them
Snapshot(dirty) ==
    [bitmap |-> ReadPage(dirty, FirstBitmapPage),
     meta   |-> [q \in Pages |-> get_page_metadata(dirty, q).metadata]]

Init ==
    /\ db = initialize_file_structure
    /\ tx = TxIdle
    /\ hist = HistIdle
    /\ er = ErIdle
    /\ fs = FsIdle
    /\ wr = WrIdle
    /\ cc = CcIdle
    /\ fr = FrIdle
    /\ mo = MoIdle

create_transaction ==
    /\ tx.state = "none"
    /\ tx' = [state |-> "active", dirty |-> <<>>]
    /\ hist' = [hist EXCEPT !.op = "create_transaction", !.ok = TRUE]
    /\ UNCHANGED <<db, fr, mo, er, fs, wr, cc>>

AllocatePage ==
    /\ tx.state = "active"
    /\ hist.ops < MaxOps
    /\ \E overflow_size \in AllocSizes : \E near_page \in NearPages :
          \E res \in {allocate_page(tx.dirty, overflow_size, near_page)} :
              /\ tx' = [tx EXCEPT !.dirty = res.dirty]
              /\ hist' = [op |-> "allocate_page", ok |-> res.ok,
                          page_num |-> res.page_num, overflow_size |-> overflow_size,
                          required |-> res.required, ops |-> hist.ops + 1,
                          chain |-> IF res.ok THEN "allocated" ELSE "none",
                          alloc_page |-> res.page_num, alloc_size |-> overflow_size,
                          before |-> IF res.ok THEN Snapshot(tx.dirty) ELSE <<>>]
    /\ UNCHANGED <<db, fr, mo, er, fs, wr, cc>>

FreePage ==
    /\ tx.state = "active"
    /\ hist.ops < MaxOps
    /\ \E page_num \in CallerPages(tx.dirty) :
          \E res \in {free_page(tx.dirty, page_num)} :
          LET next == res.ok /\ hist.chain = "allocated" /\ page_num = hist.alloc_page
          IN  /\ tx' = [tx EXCEPT !.dirty = res.dirty]
              /\ hist' = [hist EXCEPT !.op = "free_page", !.ok = res.ok,
                             !.page_num = page_num, !.ops = @ + 1,
                             !.chain = IF next THEN "freed" ELSE "none",
                             !.before = IF next THEN @ ELSE <<>>]
    /\ UNCHANGED <<db, fr, mo, er, fs, wr, cc>>

RECURSIVE PinRun(_, _, _)
\* the writable copy of a value covers every page of its run
PinRun(dirty, page_num, count) ==
    IF count = 0 \/ page_num >= FilePages THEN dirty
    ELSE Once(PinPage(dirty, page_num), LAMBDA d : PinRun(d, page_num + 1, count - 1))

\* [ok, dirty, overflow_size]
modify_page(dirty, page_num) ==
    LET m == get_page_metadata(dirty, page_num)
    IN  IF ~m.ok THEN [ok |-> FALSE, dirty |-> dirty, overflow_size |-> 0]
        ELSE [ok |-> TRUE,
              dirty |-> PinRun(dirty, page_num, PagesFor(m.metadata.overflow_size)),
              overflow_size |-> m.metadata.overflow_size]

\* [ok, overflow_size]
get_page(dirty, page_num) ==
    LET m == get_page_metadata(dirty, page_num)
    IN  IF ~m.ok THEN [ok |-> FALSE, overflow_size |-> 0]
        ELSE [ok |-> TRUE, overflow_size |-> m.metadata.overflow_size]

ModifyPage ==
    /\ tx.state = "active"
    /\ hist.ops < MaxOps
    /\ \E page_num \in HandlePages :
          \E res \in {modify_page(tx.dirty, page_num)} :
              /\ tx' = [tx EXCEPT !.dirty = res.dirty]
              /\ hist' = [hist EXCEPT !.op = "modify_page", !.ok = res.ok,
                             !.page_num = page_num, !.ops = @ + 1,
                             !.overflow_size = res.overflow_size]
    /\ UNCHANGED <<db, fr, mo, er, fs, wr, cc>>

\* the caller's memcpy(page.address, buffer, ...) into a page it has modified
WriteValue ==
    /\ tx.state = "active"
    /\ hist.ops < MaxOps
    /\ \E page_num \in DOMAIN tx.dirty \cap PayloadPages :
          /\ tx.dirty[page_num] = 0
          /\ tx' = [tx EXCEPT !.dirty = WritePage(tx.dirty, page_num, 1)]
          /\ hist' = [hist EXCEPT !.op = "write", !.ok = TRUE,
                         !.page_num = page_num, !.ops = @ + 1]
    /\ UNCHANGED <<db, fr, mo, er, fs, wr, cc>>

\* get_page inside the writing transaction
GetPage ==
    /\ tx.state = "active"
    /\ \E page_num \in HandlePages :
          LET res == get_page(tx.dirty, page_num)
          IN  hist' = [hist EXCEPT !.op = "get_page", !.ok = res.ok,
                          !.page_num = page_num, !.overflow_size = res.overflow_size]
    /\ UNCHANGED <<db, tx, fr, mo, er, fs, wr, cc>>

\* get_page of a read transaction: it has no dirty set and reads the mapping
ReaderGetPage ==
    /\ \E page_num \in HandlePages :
          LET res == get_page(<<>>, page_num)
          IN  hist' = [hist EXCEPT !.op = "reader_get_page", !.ok = res.ok,
                          !.page_num = page_num, !.overflow_size = res.overflow_size]
    /\ UNCHANGED <<db, tx, fr, mo, er, fs, wr, cc>>

\* every dirty page is written at its place in the file
commit_transaction ==
    /\ tx.state = "active"
    /\ db' = [q \in Pages |-> ReadPage(tx.dirty, q)]
    /\ tx' = [tx EXCEPT !.state = "committed"]
    /\ hist' = [hist EXCEPT !.op = "commit_transaction", !.ok = TRUE,
                   !.chain = IF @ = "allocated" THEN "alloc_committed"
                             ELSE IF @ = "freed" THEN "freed_committed"
                             ELSE "none",
                   !.before = IF hist.chain = "freed" THEN @ ELSE <<>>]
    /\ UNCHANGED <<fr, mo, er, fs, wr, cc>>

\* the dirty set is released; without a commit its changes are discarded
close_transaction ==
    /\ tx.state \in {"active", "committed"}
    /\ tx' = TxIdle
    /\ hist' = [hist EXCEPT !.op = "close_transaction", !.ok = TRUE,
                   !.chain = IF tx.state = "committed" THEN @ ELSE "none",
                   !.before = IF tx.state = "committed" THEN @ ELSE <<>>]
    /\ UNCHANGED <<db, fr, mo, er, fs, wr, cc>>

Next ==
    \/ create_transaction
    \/ AllocatePage
    \/ FreePage
    \/ ModifyPage
    \/ WriteValue
    \/ GetPage
    \/ ReaderGetPage
    \/ commit_transaction
    \/ close_transaction

Spec == Init /\ [][Next]_vars

(***************************************************************************)
(* Claims about the pager.                                                 *)
(***************************************************************************)
\* the bitmap and the metadata records on the file, and as the writing
\* transaction sees them
FileState == Snapshot(<<>>)
ViewState == Snapshot(tx.dirty)

\* C3: allocate_page never returns a run that holds a page that is busy at the
\* time of the call (header, bitmap page, metadata page, page of a live allocation).
C3_AllocatedRunWasFree ==
    (hist.op = "allocate_page" /\ hist.ok) =>
        \A j \in 0 .. hist.required - 1 :
            /\ hist.page_num + j < FilePages
            /\ ~BitIsSet(hist.before.bitmap, hist.page_num + j)

BitmapMatchesMetadata(st) ==
    \A q \in Pages : BitIsSet(st.bitmap, q) <=> st.meta[q].flags # page_free

\* C4: for every page p < number_of_pages the bitmap bit of p is set if and only
\* if the metadata record of p has flags different from free (in the file and in
\* the view of the writing transaction, after every call).
C4_BitmapIffMetadata ==
    BitmapMatchesMetadata(FileState) /\ BitmapMatchesMetadata(ViewState)

RunsWellFormed(st) ==
    /\ \A q \in Pages :
          st.meta[q].flags = page_overflow_first =>
              LET n == PagesFor(st.meta[q].overflow_size)
              IN  /\ q + n <= FilePages
                  /\ \A r \in q .. q + n - 1 : BitIsSet(st.bitmap, r)
                  /\ \A r \in q + 1 .. q + n - 1 : st.meta[r].flags = page_overflow_rest
                  /\ q + n < FilePages => st.meta[q + n].flags # page_overflow_rest
    /\ \A r \in Pages :
          st.meta[r].flags = page_overflow_rest =>
              \E q \in 0 .. r - 1 :
                  /\ st.meta[q].flags = page_overflow_first
                  /\ r < q + PagesFor(st.meta[q].overflow_size)

\* C5: every overflow_first page with overflow_size s is followed by exactly
\* ceil(s/8192)-1 overflow_rest pages, all busy in the bitmap, the page after the
\* run is not overflow_rest, and no overflow_rest page exists outside such a run.
C5_OverflowRunsWellFormed ==
    RunsWellFormed(FileState) /\ RunsWellFormed(ViewState)

\* C9: after allocate_page with overflow_size = s and a commit, get_page on the
\* returned page in a new transaction reports overflow_size = s, also for s that
\* needs a single page.
C9_GetPageReportsRequestedSize ==
    (/\ hist.op \in {"get_page", "reader_get_page"}
     /\ hist.ok
     /\ hist.chain = "alloc_committed"
     /\ hist.page_num = hist.alloc_page)
    => hist.overflow_size = hist.alloc_size

\* C10: allocate_page, then free_page of the returned page, then commit leave the
\* bitmap and every metadata record the allocation touched as they were before
\* the allocate_page.
C10_AllocateFreeRestores ==
    (hist.op = "commit_transaction" /\ hist.chain = "freed_committed") =>
        /\ FileState.bitmap = hist.before.bitmap
        /\ \A j \in 0 .. PagesFor(hist.alloc_size) - 1 :
              FileState.meta[hist.alloc_page + j] = hist.before.meta[hist.alloc_page + j]

\* the bitmap holds no run of n clear bits
NoFreeRun(bitmap, n) ==
    \A p \in Pages : ~IsFreeRun(bitmap, FilePages, p, n)

\* the step is a call of allocate_page
IsAllocateStep == hist'.op = "allocate_page" /\ hist'.ops = hist.ops + 1

C12_FreeOfOverflowRestRejected ==
    [][(/\ hist'.op = "free_page"
        /\ hist'.ops = hist.ops + 1
        /\ hist'.page_num \in Pages
        /\ ViewState.meta[hist'.page_num].flags = page_overflow_rest)
       => (~hist'.ok /\ tx'.dirty = tx.dirty)]_vars

\* the pages that hold the metadata records of the pages of the file
RecordPages == {get_metadata_page_offset(FilePages, q).metadata_page_num : q \in Pages}

FrRunStart(p) == ~BitIsSet(fr.bitmap, p) /\ (p = 0 \/ BitIsSet(fr.bitmap, p - 1))

\* length of the free run that starts at bit p
FrRunLen(p) ==
    CHOOSE l \in 1 .. FrBits :
        /\ IsFreeRun(fr.bitmap, FrBits, p, l)
        /\ (p + l = FrBits \/ BitIsSet(fr.bitmap, p + l))

\* the recorded call asked for one page near page 0 of a bitmap with a clear bit
FrOnePageNearZero ==
    /\ fr.called
    /\ fr.size_required = 1
    /\ fr.near_pos = 0
    /\ \E p \in 0 .. FrBits - 1 : ~BitIsSet(fr.bitmap, p)

FrNoRunEndsWord ==
    \A k \in 1 .. fr.bitmap_size - 1 : BitIsSet(fr.bitmap, k * WordBits - 1)

FrNearWordStart == (fr.near_pos \div WordBits) * WordBits

\* length of the free run that starts at bit p (0 when the bit is set)
FrLenAt(p) == IF p >= FrBits \/ BitIsSet(fr.bitmap, p) THEN 0 ELSE FrRunLen(p)

\* the recorded call succeeded from its forward scan
FrForwardHit == fr.called /\ fr.ok /\ fr.bit_pos >= FrNearWordStart

\* a sufficient free run starts at q and lies within the locality window
FrSufficientInWindow(q) ==
    /\ q >= FrNearWordStart
    /\ FrRunStart(q)
    /\ FrRunLen(q) >= fr.size_required
    /\ q + FrRunLen(q) - FrNearWordStart
           <= MAX_DISTANCE_TO_SEARCH_BEST_MATCH + fr.size_required

\* C15: when the forward scan succeeds, the free run at the returned position is
\* no longer than any sufficient free run that lies within the locality window
\* of MAX_DISTANCE + size_required bits after the start of the word of near_pos.
C15_SmallestRunInWindow ==
    FrForwardHit =>
        \A q \in 0 .. FrBits - 1 :
            FrSufficientInWindow(q) => FrLenAt(fr.bit_pos) <= FrRunLen(q)

\* the words at or after the word of near_pos hold no sufficient free run and the
\* words before it hold at least one
FrOnlyEarlierRegionHasRun ==
    /\ fr.called
    /\ fr.size_required >= 1
    /\ fr.near_pos \div WordBits < fr.bitmap_size
    /\ \A p \in FrNearWordStart .. FrBits - 1 :
          ~IsFreeRun(fr.bitmap, FrBits, p, fr.size_required)
    /\ \E p \in 0 .. FrNearWordStart - 1 :
          IsFreeRun(fr.bitmap, FrNearWordStart, p, fr.size_required)

\* C16: when only the words before the word of near_pos hold a sufficient free
\* run, find_free_range_in_bitmap returns true with the start of the
\* lowest-addressed sufficient run of that earlier region.
C16_FallbackFindsLowestEarlierRun ==
    FrOnlyEarlierRegionHasRun =>
        /\ fr.ok
        /\ IsFreeRun(fr.bitmap, FrNearWordStart, fr.bit_pos, fr.size_required)
        /\ \A q \in 0 .. fr.bit_pos - 1 :
              ~IsFreeRun(fr.bitmap, FrNearWordStart, q, fr.size_required)

\* the recorded call had size_required = 0 or a near_pos outside the bitmap
FrRejectedArguments ==
    /\ fr.called
    /\ (fr.size_required = 0 \/ fr.near_pos \div WordBits >= fr.bitmap_size)

\* C17: find_free_range_in_bitmap returns false when size_required = 0 and when
\* near_pos lies outside the bitmap, and does not write *bit_pos.
C17_BadArgumentsRejected ==
    FrRejectedArguments => (~fr.ok /\ fr.bit_pos = CallerBitPos)

\* a call rejected for exactly one of the two reasons, on a bitmap with a free bit
C17_Witness ==
    /\ FrRejectedArguments
    /\ fr.size_required = 0 <=> fr.near_pos \div WordBits < fr.bitmap_size
    /\ \E p \in 0 .. FrBits - 1 : ~BitIsSet(fr.bitmap, p)

(***************************************************************************)
(* SpecErrors: the error channel of one thread (Listings 1.4 to 1.6).  A   *)
(* message is known by its formatted length; the prefix that               *)
(* push_error_internal formats before the caller's message is that of one  *)
(* call site.  A write outside _messages_buffer or outside                 *)
(* _errors_messages_codes is undefined behaviour: the channel is marked    *)
(* wild and _errors_count may hold any value afterwards.                   *)
(***************************************************************************)
MaxErrorCalls == 5     \* calls on the channel in one run

\* codes pushed by the callers (EIO, EINVAL)
ErrorCodes == {5, 22}
\* formatted lengths of the caller's message
BodyLens == {0, 29, 100}
\* strlen(func) and the length of "file:line" at the call site
FuncNameLen == 4
FileLineLen == 5

\* characters printf writes for a "%*c" field of width w
FieldWidth(w) == IF w < 0 THEN -w ELSE IF w = 0 THEN 1 ELSE w

\* chars after snprintf(msg, avail, "%s()", func)
CharsAfterFunc == FuncNameLen + 2
\* chars after "%-*c - %s:%i" with width 18 - chars
CharsAfterLocation ==
    CharsAfterFunc + FieldWidth(18 - CharsAfterFunc) + 3 + FileLineLen
\* chars after "%*c - %3i - " with width 40 - chars
CharsAfterCode ==
    CharsAfterLocation + FieldWidth(40 - CharsAfterLocation) + 3 + 3 + 3

\* _out_of_memory |= b, for a single bit b
OrBit(x, b) == IF (x \div b) % 2 = 1 THEN x ELSE x + b

\* the channels a call may leave after a write outside its buffers
Wild(e) == {[e EXCEPT !.wild = TRUE, !.count = c] : c \in 0 .. MAX_ERRORS}

\* push_error_internal: the set of channels the call may leave
push_error_internal(e, code, body_len) ==
    IF e.count + 1 >= MAX_ERRORS
    THEN {[e EXCEPT !.out_of_memory = OrBit(@, 1)]}
    ELSE LET index   == e.count
             e1      == [e EXCEPT !.count = @ + 1, !.codes[index] = code]
             \* avail = MAX_ERRORS_MSG_BUFFER - _errors_buffer_len wraps around
             \* when the used length is past the buffer
             wrapped == e.buffer_len > MAX_ERRORS_MSG_BUFFER
             avail   == MAX_ERRORS_MSG_BUFFER - e.buffer_len
             chars   == CharsAfterCode + body_len
             oom     == [e1 EXCEPT !.out_of_memory = OrBit(@, 2),
                                   !.messages[index] = NullMessage]
             stored  == [e1 EXCEPT !.buffer_len = @ + chars + 1,
                                   !.messages[index] = e.buffer_len]
         IN  IF wrapped \/ CharsAfterCode > avail
             \* snprintf(msg + chars, avail - chars, ...) with chars > avail:
             \* the size wraps around and the write starts past the buffer
             THEN Wild(stored)
             ELSE IF CharsAfterCode = avail \/ chars = avail THEN {oom}
             ELSE {stored}

\* push_error_again: the previous code with the message "..."
push_error_again(e) ==
    IF e.count = 0 THEN {e}
    ELSE push_error_internal(e, e.codes[e.count - 1], 3)

\* clear_errors: the memset of the codes clears sizeof(int32_t*) * count bytes of
\* an array of MAX_ERRORS ints, the memset of the messages _errors_buffer_len bytes
clear_errors(e) ==
    [ErIdle EXCEPT !.wild = \/ e.wild
                            \/ 8 * e.count > 4 * MAX_ERRORS
                            \/ e.buffer_len > MAX_ERRORS_MSG_BUFFER]

InitErrors ==
    /\ er = ErIdle
    /\ fs = FsIdle
    /\ wr = WrIdle
    /\ cc = CcIdle
    /\ fr = FrIdle
    /\ mo = MoIdle
    /\ db = DbIdle
    /\ tx = TxIdle
    /\ hist = HistIdle

PushError ==
    /\ er.calls < MaxErrorCalls
    /\ \E code \in ErrorCodes : \E body_len \in BodyLens :
       \E e \in push_error_internal(er, code, body_len) :
          er' = [e EXCEPT !.op = "push_error", !.code = code, !.calls = er.calls + 1]
    /\ UNCHANGED <<fr, mo, db, tx, hist, fs, wr, cc>>

MarkError ==
    /\ er.calls < MaxErrorCalls
    /\ \E e \in push_error_again(er) :
          er' = [e EXCEPT !.op = "mark_error", !.calls = er.calls + 1]
    /\ UNCHANGED <<fr, mo, db, tx, hist, fs, wr, cc>>

ClearErrors ==
    /\ er.calls < MaxErrorCalls
    /\ er' = [clear_errors(er) EXCEPT !.op = "clear_errors", !.calls = er.calls + 1]
    /\ UNCHANGED <<fr, mo, db, tx, hist, fs, wr, cc>>

NextErrors == PushError \/ MarkError \/ ClearErrors

SpecErrors == InitErrors /\ [][NextErrors]_vars

\* the step is a call of push_error
IsPushStep == er'.op = "push_error" /\ er'.calls = er.calls + 1

\* C18: each of the first MAX_ERRORS push_error calls is recorded (the count
\* grows by one and its code is stored); a push after MAX_ERRORS entries are
\* held is dropped, leaves the recorded entries unchanged and sets the overflow
\* flag.
C18_FirstPushesRecorded ==
    [][(IsPushStep /\ ~er'.wild) =>
          IF er.count < MAX_ERRORS
          THEN er'.count = er.count + 1 /\ er'.codes[er.count] = er'.code
          ELSE /\ er'.count = er.count
               /\ er'.codes = er.codes
               /\ er'.messages = er.messages
               /\ er'.out_of_memory # 0]_vars

(***************************************************************************)
(* SpecFiles: the file primitives of ch02.  The path of the file is        *)
(* d1/.../dn/f, rooted or relative to the working directory; nodes[i] says *)
(* what the file system holds at d1/.../di and nodes[n+1] what it holds at *)
(* the path itself.  Every system call that can fail may fail.  fs.log is  *)
(* the sequence of system calls and push_error calls of the last call.     *)
(***************************************************************************)
MaxDirs == 2          \* directories on the path of the file
MaxFileCalls == 3     \* calls on the handle after create_file

\* lengths of an existing file and minimum sizes asked for
FileSizes == {0, PAGE_SIZE, 2 * PAGE_SIZE}

NodeKinds == {"missing", "dir", "file"}
\* only a directory has entries
Layouts(n) ==
    {nodes \in [1 .. n + 1 -> NodeKinds] :
        \A i \in 1 .. n : nodes[i] # "dir" => nodes[i + 1] = "missing"}

\* an entry of the log: a system call on the path at depth at (0 is the working
\* directory, or the empty path of a rooted name), or a push_error
Sys(op, at, ok) == [op |-> op, at |-> at, ok |-> ok, what |-> ""]
Push(what) == [op |-> "push_error", at |-> 0, ok |-> FALSE, what |-> what]

\* stat of the path cut after component i: "dir", "file", "ENOENT" or "ENOTDIR"
Stat(nodes, i) ==
    IF \E j \in 1 .. i - 1 : nodes[j] = "file" THEN "ENOTDIR"
    ELSE IF \E j \in 1 .. i : nodes[j] = "missing" THEN "ENOENT"
    ELSE nodes[i]

\* fsync_parent_directory that reports success whatever fsync returned
fsync_parent_directory_ignores_fsync(rooted, nodes, i) ==
    {[res |-> TRUE, log |-> <<Sys("open_dir", i - 1, TRUE), Sys("fsync", i - 1, f),
                              Sys("close_dir", i - 1, TRUE)>>] : f \in BOOLEAN}

\* fsync_parent_directory of the path cut after component i: the set of
\* [res, log] the call may give
fsync_parent_directory(rooted, nodes, i) ==
    LET parent   == i - 1
        \* strrchr cuts a rooted one-component name to the empty path
        can_open == IF parent = 0 THEN ~rooted ELSE Stat(nodes, parent) = "dir"
    IN  {[res |-> FALSE,
          log |-> <<Sys("open_dir", parent, FALSE),
                    Push("Unable to open parent directory")>>]}
        \cup
        (IF ~can_open THEN {}
         ELSE {[res |-> f /\ c,
                log |-> <<Sys("open_dir", parent, TRUE), Sys("fsync", parent, f)>>
                        \o (IF f THEN <<>>
                            ELSE <<Push("Failed to fsync parent directory")>>)
                        \o <<Sys("close_dir", parent, c)>>
                        \o (IF c THEN <<>>
                            ELSE <<Push("Failed to close parent directory")>>)]
               : f \in BOOLEAN, c \in BOOLEAN})

RECURSIVE ensure_directories(_, _, _, _)
\* the while loop of ensure_file_path from component i on: the set of
\* [ok, nodes, log]
ensure_directories(rooted, nodes, i, n) ==
    IF i > n THEN {[ok |-> TRUE, nodes |-> nodes, log |-> <<>>]}
    ELSE IF Stat(nodes, i) = "dir" THEN ensure_directories(rooted, nodes, i + 1, n)
    ELSE IF Stat(nodes, i) = "file"
    THEN {[ok |-> FALSE, nodes |-> nodes,
           log |-> <<Push("is a file, but expected a directory")>>]}
    ELSE {[ok |-> FALSE, nodes |-> nodes,
           log |-> <<Sys("mkdir", i, FALSE), Push("Unable to create directory")>>]}
         \cup
         UNION {
            IF ~f.res
            THEN {[ok |-> FALSE, nodes |-> made,
                   log |-> <<Sys("mkdir", i, TRUE)>> \o f.log \o <<Push("mark_error")>>]}
            ELSE {[ok |-> r.ok, nodes |-> r.nodes,
                   log |-> <<Sys("mkdir", i, TRUE)>> \o f.log \o r.log]
                  : r \in ensure_directories(rooted, made, i + 1, n)}
            : made \in {[nodes EXCEPT ![i] = "dir"]},
              f \in fsync_parent_directory(rooted, [nodes EXCEPT ![i] = "dir"], i) }

\* ensure_file_path: the set of [ok, nodes, log]
ensure_file_path(rooted, nodes) ==
    LET n == Len(nodes) - 1
    IN  IF Stat(nodes, n + 1) = "dir"
        THEN {[ok |-> FALSE, nodes |-> nodes,
               log |-> <<Push("is a directory, expected a file")>>]}
        ELSE IF Stat(nodes, n + 1) = "file"
        THEN {[ok |-> TRUE, nodes |-> nodes, log |-> <<>>]}
        ELSE ensure_directories(rooted, nodes, 1, n)

\* create_file from its open() on: the set of [ok, nodes, log, fd, open_fds]
open_and_sync(rooted, nodes, isNew, log) ==
    LET n      == Len(nodes) - 1
        opened == [nodes EXCEPT ![n + 1] = "file"]
        lg     == log \o <<Sys("open", n + 1, TRUE)>>
    IN  {[ok |-> FALSE, nodes |-> nodes, fd |-> "none", open_fds |-> 0,
          log |-> log \o <<Sys("open", n + 1, FALSE), Push("Unable to open file")>>]}
        \cup
        (IF ~isNew
         THEN {[ok |-> TRUE, nodes |-> opened, fd |-> "open", open_fds |-> 1, log |-> lg]}
         ELSE UNION {
                IF f.res
                THEN {[ok |-> TRUE, nodes |-> opened, fd |-> "open", open_fds |-> 1,
                       log |-> lg \o f.log]}
                ELSE {[ok |-> FALSE, nodes |-> opened, fd |-> "none", open_fds |-> 0,
                       log |-> lg \o f.log
                               \o <<Push("Unable to fsync parent directory after creating new file"),
                                    Sys("close", n + 1, c)>>
                               \* if(!close(fd)) push_error(...)
                               \o (IF c THEN <<Push("Unable to close file")>> ELSE <<>>)]
                      : c \in BOOLEAN}
                : f \in fsync_parent_directory(rooted, opened, n + 1) })

\* create_file: the set of [ok, nodes, log, fd, open_fds]
create_file(rooted, nodes) ==
    LET n  == Len(nodes) - 1
        st == Stat(nodes, n + 1)
        failed(log) == [ok |-> FALSE, nodes |-> nodes, fd |-> "none", open_fds |-> 0,
                        log |-> log]
    IN  IF st = "ENOTDIR" THEN {failed(<<Push("Unable to stat")>>)}
        ELSE IF st = "ENOENT"
        THEN UNION {
                IF ~p.ok
                THEN {[ok |-> FALSE, nodes |-> p.nodes, fd |-> "none", open_fds |-> 0,
                       log |-> p.log \o <<Push("mark_error")>>]}
                ELSE open_and_sync(rooted, p.nodes, TRUE, p.log)
                : p \in ensure_file_path(rooted, nodes) }
        ELSE IF st = "dir"
        THEN {failed(<<Push("is a directory, expected a file")>>)}
        ELSE open_and_sync(rooted, nodes, FALSE, <<>>)

\* the length of the file after posix_fallocate(fd, offset, len) has returned 0
posix_fallocate_sets_length(length, offset, len) == offset + len

posix_fallocate(length, offset, len) ==
    IF offset + len > length THEN offset + len ELSE length

\* ensure_file_minimum_size: the set of [ok, length, log]
ensure_file_minimum_size(rooted, nodes, length, minimum_size) ==
    LET n == Len(nodes) - 1
    IN  {[ok |-> FALSE, length |-> length,
          log |-> <<Sys("posix_fallocate", n + 1, FALSE), Push("Unable to extend file")>>]}
        \cup
        \* posix_fallocate returns EINVAL for a length of 0
        (IF minimum_size = 0 THEN {}
         ELSE {[ok |-> f.res, length |-> posix_fallocate(length, 0, minimum_size),
                log |-> <<Sys("posix_fallocate", n + 1, TRUE)>> \o f.log
                        \o (IF f.res THEN <<>> ELSE <<Push("mark_error")>>)]
               : f \in fsync_parent_directory(rooted, nodes, n + 1)})

InitFiles ==
    /\ \E rooted \in BOOLEAN : \E n \in 0 .. MaxDirs : \E nodes \in Layouts(n) :
       \E length \in (IF nodes[n + 1] = "file" THEN FileSizes ELSE {0}) :
          fs = [FsIdle EXCEPT !.rooted = rooted, !.nodes = nodes, !.length = length]
    /\ er = ErIdle
    /\ wr = WrIdle
    /\ cc = CcIdle
    /\ fr = FrIdle
    /\ mo = MoIdle
    /\ db = DbIdle
    /\ tx = TxIdle
    /\ hist = HistIdle

CreateFile ==
    /\ fs.op = "none"
    /\ \E r \in create_file(fs.rooted, fs.nodes) :
          fs' = [fs EXCEPT !.nodes = r.nodes, !.fd = r.fd, !.open_fds = r.open_fds,
                           !.op = "create_file", !.ok = r.ok, !.log = r.log,
                           !.was_new = Stat(fs.nodes, Len(fs.nodes)) = "ENOENT"]
    /\ UNCHANGED <<fr, mo, db, tx, hist, er, wr, cc>>

EnsureFileMinimumSize ==
    /\ fs.fd = "open"
    /\ fs.calls < MaxFileCalls
    /\ \E minimum_size \in FileSizes :
       \E r \in ensure_file_minimum_size(fs.rooted, fs.nodes, fs.length, minimum_size) :
          fs' = [fs EXCEPT !.length = r.length, !.op = "ensure_file_minimum_size",
                           !.ok = r.ok, !.log = r.log, !.calls = @ + 1,
                           !.minimum_size = minimum_size, !.length_before = fs.length]
    /\ UNCHANGED <<fr, mo, db, tx, hist, er, wr, cc>>

\* close_file: the set of [ok, log] the call may give.  The function has no
\* return statement on the path where close() succeeded: what the caller reads
\* there is not defined by the language, so either value may come back.
close_file(null_handle, at) ==
    IF null_handle THEN {[ok |-> TRUE, log |-> <<>>]}
    ELSE {[ok |-> FALSE, log |-> <<Sys("close", at, FALSE), Push("Failed to close file")>>]}
         \cup {[ok |-> r, log |-> <<Sys("close", at, TRUE)>>] : r \in BOOLEAN}

CloseFile ==
    /\ fs.op # "close_file"
    /\ \E null_handle \in BOOLEAN :
          /\ ~null_handle => fs.fd = "open"
          /\ \E r \in close_file(null_handle, Len(fs.nodes)) :
                fs' = [fs EXCEPT !.op = "close_file", !.ok = r.ok, !.log = r.log,
                                 !.null_handle = null_handle,
                                 !.fd = IF null_handle THEN @ ELSE "closed",
                                 !.open_fds = IF null_handle THEN @ ELSE @ - 1]
    /\ UNCHANGED <<fr, mo, db, tx, hist, er, wr, cc>>

NextFiles == CreateFile \/ EnsureFileMinimumSize \/ CloseFile

SpecFiles == InitFiles /\ [][NextFiles]_vars

\* a successful fsync of the directory at depth dir follows entry k of the log
\* before any other creation step
FsyncedBeforeNextCreation(k, dir) ==
    \E j \in k + 1 .. Len(fs.log) :
        /\ fs.log[j].op = "fsync"
        /\ fs.log[j].ok
        /\ fs.log[j].at = dir
        /\ \A m \in k + 1 .. j - 1 : fs.log[m].op \notin {"mkdir", "open"}

\* create_file has returned true for a path that did not exist
FsCreatedNewFile == fs.op = "create_file" /\ fs.ok /\ fs.was_new

\* C19: whenever create_file returns true for a path that did not exist, every
\* creation of a missing intermediate directory was followed by a successful
\* fsync of that directory's parent before the next creation step, and the
\* creation of the file by a successful fsync of its parent directory before
\* create_file returned.
C19_CreationStepsAreSynced ==
    FsCreatedNewFile =>
        /\ \A k \in 1 .. Len(fs.log) :
              (fs.log[k].op = "mkdir" /\ fs.log[k].ok) =>
                  FsyncedBeforeNextCreation(k, fs.log[k].at - 1)
        /\ \E k \in 1 .. Len(fs.log) :
              /\ fs.log[k].op = "open"
              /\ fs.log[k].ok
              /\ FsyncedBeforeNextCreation(k, Len(fs.nodes) - 1)

\* a new file two directories deep, both directories created by the call
C19_Witness ==
    /\ FsCreatedNewFile
    /\ Cardinality({k \in 1 .. Len(fs.log) : fs.log[k].op = "mkdir" /\ fs.log[k].ok}) = 2

\* C20: after a successful ensure_file_minimum_size(handle, n) the length of the
\* file is max(previous length, n): the file never shrinks and the call is a
\* no-op on the length when the file already has n bytes.
C20_MinimumSizeIsMax ==
    (fs.op = "ensure_file_minimum_size" /\ fs.ok) =>
        /\ fs.length >= fs.length_before
        /\ fs.length >= fs.minimum_size
        /\ fs.length \in {fs.length_before, fs.minimum_size}
        /\ fs.length_before >= fs.minimum_size => fs.length = fs.length_before

\* a successful call on a file that was already longer than the size asked for
C20_Witness ==
    /\ fs.op = "ensure_file_minimum_size"
    /\ fs.ok
    /\ fs.length_before > fs.minimum_size
    /\ fs.minimum_size > 0

(***************************************************************************)
(* SpecWrite: write_file (Listing 2.12) on a file of FileBytes bytes.  A   *)
(* call of pwrite writes any positive number of the bytes it was given, or *)
(* fails with EINTR or with another error.                                 *)
(***************************************************************************)
MaxWriteLen == 3      \* the longest buffer given to write_file
MaxInterrupts == 2    \* EINTR results of pwrite during one call of write_file
MaxWriteCalls == 2    \* calls of write_file in one behaviour
Bytes == {1, 2}       \* byte values of the buffers; the file starts as zeroes

\* the file after pwrite(fd, buffer + pos, ..., offset) has written result bytes
pwrite(file, buffer, pos, offset, result) ==
    [i \in DOMAIN file |->
        IF offset <= i /\ i < offset + result THEN buffer[pos + (i - offset) + 1]
        ELSE file[i]]

\* the end of the loop body that moves only the offset
advance_offset_only(st, result) ==
    [st EXCEPT !.len_to_write = @ - result, !.offset = @ + result]

\* len_to_write -= result; buffer += result; offset += result;
advance(st, result) ==
    [st EXCEPT !.len_to_write = @ - result, !.pos = @ + result, !.offset = @ + result]

\* The loop of write_file from the state st = [file, buffer, pos, offset,
\* len_to_write, pwrites]: the set of [ok, file, pwrites] it may end with,
\* with at most eintr more interrupted calls.
RECURSIVE write_loop(_, _)
write_loop(st, eintr) ==
    LET call == [pos |-> st.pos, offset |-> st.offset, len |-> st.len_to_write]
    IN  IF st.len_to_write = 0
        THEN {[ok |-> TRUE, file |-> st.file, pwrites |-> st.pwrites]}
        ELSE \* result == -1 with another errno
             {[ok |-> FALSE, file |-> st.file,
               pwrites |-> Append(st.pwrites, call @@ [result |-> -1, eintr |-> FALSE])]}
             \cup
             \* result == -1 with errno == EINTR: continue
             (IF eintr = 0 THEN {}
              ELSE UNION {write_loop(s2, eintr - 1) :
                     s2 \in {[st EXCEPT !.pwrites =
                                Append(@, call @@ [result |-> -1, eintr |-> TRUE])]}})
             \cup
             UNION {UNION {write_loop(s2, eintr) :
                      s2 \in {advance([st EXCEPT
                                 !.file = pwrite(st.file, st.buffer, st.pos, st.offset, result),
                                 !.pwrites = Append(@, call @@ [result |-> result,
                                                               eintr |-> FALSE])],
                               result)}}
                    : result \in 1 .. st.len_to_write}

write_file(file, offset, buffer, len_to_write) ==
    write_loop([file |-> file, buffer |-> buffer, pos |-> 0, offset |-> offset,
                len_to_write |-> len_to_write, pwrites |-> <<>>], MaxInterrupts)

InitWrite ==
    /\ wr = WrIdle
    /\ cc = CcIdle
    /\ fs = FsIdle
    /\ er = ErIdle
    /\ fr = FrIdle
    /\ mo = MoIdle
    /\ db = DbIdle
    /\ tx = TxIdle
    /\ hist = HistIdle

WriteFile ==
    /\ wr.calls < MaxWriteCalls
    /\ \E len \in 0 .. MaxWriteLen : \E offset \in 0 .. FileBytes - len :
       \E buffer \in [1 .. len -> Bytes] :
       \E r \in write_file(wr.file, offset, buffer, len) :
          wr' = [file |-> r.file, buffer |-> buffer, offset |-> offset,
                 len_to_write |-> len, file_before |-> wr.file, op |-> "write_file",
                 ok |-> r.ok, pwrites |-> r.pwrites, calls |-> wr.calls + 1]
    /\ UNCHANGED <<fr, mo, db, tx, hist, er, fs, cc>>

NextWrite == WriteFile

SpecWrite == InitWrite /\ [][NextWrite]_vars

\* write_file has returned true
WrWritten == wr.op = "write_file" /\ wr.ok

\* the bytes pwrite call k of the last write_file was asked to write
WrAsked(k) == wr.pwrites[k]

\* C21: when write_file(handle, offset, buffer, len) returns true the bytes
\* [offset, offset + len) of the file equal buffer[0 .. len) and no other byte
\* has changed, for every pattern of partial writes and interruptions: a write
\* after a partial write of k bytes resumes at buffer + k and offset + k, and
\* an interrupted write is repeated with the same position, offset and length.
C21_WriteFileWritesBuffer ==
    /\ WrWritten =>
          \A i \in 0 .. FileBytes - 1 :
              wr.file[i] = IF wr.offset <= i /\ i < wr.offset + wr.len_to_write
                           THEN wr.buffer[i - wr.offset + 1]
                           ELSE wr.file_before[i]
    /\ wr.op = "write_file" =>
          \A k \in 1 .. Len(wr.pwrites) - 1 :
              LET a == WrAsked(k)
                  b == WrAsked(k + 1)
                  done == IF a.result = -1 THEN 0 ELSE a.result
              IN  /\ b.pos = a.pos + done
                  /\ b.offset = a.offset + done
                  /\ b.len = a.len - done

\* a successful call that met an interruption and then two partial writes
C21_Witness ==
    /\ WrWritten
    /\ wr.len_to_write = MaxWriteLen
    /\ \E k \in 1 .. Len(wr.pwrites) : wr.pwrites[k].eintr
    /\ Cardinality({k \in 1 .. Len(wr.pwrites) : wr.pwrites[k].result > 0}) >= 2
    /\ \E i, j \in 1 .. MaxWriteLen : wr.buffer[i] # wr.buffer[j]

\* the result of the underlying close() of the last close_file, "none" for a
\* null handle
FsCloseResult ==
    IF fs.null_handle THEN "none"
    ELSE IF fs.log[1].ok THEN "ok" ELSE "error"

\* C22: close_file returns false and pushes an error when the underlying close
\* reports an error, and returns true when the underlying close succeeds or the
\* handle is null.
C22_CloseFileReportsClose ==
    fs.op = "close_file" =>
        /\ FsCloseResult = "error" =>
              (~fs.ok /\ \E k \in 1 .. Len(fs.log) : fs.log[k].op = "push_error")
        /\ FsCloseResult \in {"ok", "none"} => fs.ok

\* the positions of the log of the last call that hold the operation op
FsLogged(op) == {k \in 1 .. Len(fs.log) : fs.log[k].op = op}

\* create_file has opened a new file and the fsync of its parent directory failed
FsNewFileNotSynced ==
    /\ fs.op = "create_file"
    /\ fs.was_new
    /\ \E k \in FsLogged("open") : fs.log[k].ok
    /\ \E k \in FsLogged("push_error") :
          fs.log[k].what = "Unable to fsync parent directory after creating new file"

\* C30: when create_file has opened a new file but the fsync of the parent
\* directory fails, create_file returns false, the descriptor is closed and not
\* stored in the handle, and an "Unable to close file" error is recorded only
\* if that close itself fails.
C30_FailedSyncClosesQuietly ==
    FsNewFileNotSynced =>
        /\ ~fs.ok
        /\ fs.fd = "none"
        /\ fs.open_fds = 0
        /\ FsLogged("close") # {}
        /\ (\E k \in FsLogged("push_error") : fs.log[k].what = "Unable to close file")
              => \E k \in FsLogged("close") : ~fs.log[k].ok

\* allocate_page has just returned true
HistAllocated == hist.op = "allocate_page" /\ hist.ok

\* C25: allocate_page for a run of required pages starting at page first writes
\* for every page b of the run a record with flags = single and overflow_size = 0
\* when required = 1; flags = overflow_first and overflow_size = the requested
\* size when b = first; flags = overflow_rest and overflow_size = requested size
\* - (b - first) * 8192 otherwise.
C25_AllocatedRecords ==
    HistAllocated =>
        \A b \in hist.page_num .. hist.page_num + hist.required - 1 :
            LET m == ViewState.meta[b]
            IN  IF hist.required = 1
                THEN m.flags = page_single /\ m.overflow_size = 0
                ELSE IF b = hist.page_num
                THEN m.flags = page_overflow_first /\ m.overflow_size = hist.overflow_size
                ELSE /\ m.flags = page_overflow_rest
                     /\ m.overflow_size = hist.overflow_size - (b - hist.page_num) * 8192

\* a request of 8193 bytes has given two pages, the second with overflow_size 1
C25_Witness ==
    /\ HistAllocated
    /\ hist.overflow_size = 8193
    /\ hist.required = 2
    /\ ViewState.meta[hist.page_num + 1].overflow_size = 1

\* a free run of at least size_required bits starts at q, in or after the word
\* of near_pos (the part of the bitmap the forward scan walks from low to high)
FrCandidate(q) ==
    /\ q >= FrNearWordStart
    /\ FrRunStart(q)
    /\ FrRunLen(q) >= fr.size_required

\* the forward scan stops being choosy at a run that starts further than
\* MAX_DISTANCE + size_required bits after the start of the word of near_pos
FrTooFar(q) ==
    /\ FrNearWordStart # 0
    /\ q - FrNearWordStart > MAX_DISTANCE_TO_SEARCH_BEST_MATCH + fr.size_required

\* the first run of exactly size_required bits that the scan meets is returned
FrExactFitWins ==
    (FrForwardHit /\ FrNoRunEndsWord /\ fr.size_required > 0) =>
        \A e \in FrNearWordStart .. FrBits - 1 :
            (/\ FrCandidate(e)
             /\ FrRunLen(e) = fr.size_required
             /\ \A q \in FrNearWordStart .. e - 1 :
                   FrCandidate(q) => (FrRunLen(q) # fr.size_required /\ ~FrTooFar(q)))
            => fr.bit_pos = e

\* C26: between sufficient free runs of equal length met by the scan,
\* find_free_range_in_bitmap returns the one at the lower address, and the
\* first run of exactly size_required bits is returned as soon as the scan
\* meets it.  (Stated for bitmaps in which no free run reaches the end of a
\* word that another word follows, where every run before the returned one is
\* met by the scan.)
C26_EqualRunsLowerAddressWins ==
    /\ (FrForwardHit /\ FrNoRunEndsWord /\ fr.size_required > 0) =>
          /\ FrRunStart(fr.bit_pos)
          /\ \A q \in FrNearWordStart .. FrBits - 1 :
                (FrCandidate(q) /\ FrRunLen(q) = FrRunLen(fr.bit_pos)) => q >= fr.bit_pos
    /\ FrExactFitWins

\* C27: after any sequence of push_error, mark_error and clear_errors calls the
\* used length of the message buffer never exceeds MAX_ERRORS_MSG_BUFFER and the
\* message pointer of every recorded error that has a message refers to a
\* location inside the message buffer, also when a formatted message is longer
\* than the space that remains.
C27_MessagesStayInBuffer ==
    /\ er.buffer_len <= MAX_ERRORS_MSG_BUFFER
    /\ \A i \in 0 .. MAX_ERRORS - 1 :
          (i < er.count /\ er.messages[i] # NullMessage) =>
              (0 <= er.messages[i] /\ er.messages[i] < MAX_ERRORS_MSG_BUFFER)

(***************************************************************************)
(* SpecBitmapWide: find_free_range_in_bitmap asked for more bits than the  *)
(* bitmap has, up to the largest value of size_t.                          *)
(***************************************************************************)
WideAbove == 2      \* sizes just above the number of bits of the bitmap
WideBelow == 14     \* sizes just below 2^SizeBits

\* size_required larger than a bitmap of nbits bits
WideSizes(nbits) ==
    (nbits + 1 .. nbits + WideAbove) \cup (SizeModulus - WideBelow .. SizeModulus - 1)

FindFreeRangeWide ==
    /\ ~fr.called
    /\ \E size_required \in WideSizes(fr.bitmap_size * WordBits) :
       \E near_pos \in 0 .. fr.bitmap_size * WordBits - 1 :
       \E res \in {find_free_range_in_bitmap(fr.bitmap, fr.bitmap_size,
                                             size_required, near_pos, fr.bit_pos)} :
          fr' = [fr EXCEPT !.called = TRUE, !.size_required = size_required,
                           !.near_pos = near_pos, !.ok = res.ok,
                           !.bit_pos = res.bit_pos, !.terminates = res.terminates]
    /\ UNCHANGED <<mo, db, tx, hist, er, fs, wr, cc>>

NextBitmapWide == FindFreeRangeWide

SpecBitmapWide == InitBitmap /\ [][NextBitmapWide]_vars

\* C28: find_free_range_in_bitmap terminates for every bitmap of finite size,
\* every size_required and every near_pos (find_smallest_nearby_range never
\* receives the same run twice).
C28_SearchTerminates ==
    fr.called => fr.terminates

\* C29: for every size_required larger than the number of bits of the bitmap,
\* find_free_range_in_bitmap returns false when it returns, values close to the
\* maximum of size_t included.
C29_OversizedRequestFails ==
    (fr.called /\ fr.size_required > FrBits /\ fr.terminates) => ~fr.ok

(***************************************************************************)
(* SpecTxn: threads that create, use, commit and close transactions on one *)
(* database.  A step is one call of the transaction API, except that       *)
(* commit_transaction writes its dirty pages one write_file at a time.     *)
(***************************************************************************)
\* the writer mutex that takes no notice of its owner
writer_mutex_ignored(owner, t) == TRUE

\* the writer mutex of the database can be taken (or is held) by thread t
writer_mutex_free(owner, t) == owner \in {NoThread, t}

\* get_page that looks into the dirty sets of all transactions
txn_get_page_any_dirty(c, t, p) ==
    IF \E u \in Threads : c.th[u].dirty[p] # NoCopy
    THEN c.th[CHOOSE u \in Threads : c.th[u].dirty[p] # NoCopy].dirty[p]
    ELSE c.file[p]

\* get_page: the copy in this transaction's dirty set, else the mapping
txn_get_page(c, t, p) ==
    IF c.th[t].dirty[p] # NoCopy THEN c.th[t].dirty[p] ELSE c.file[p]

\* the contents a thread's transaction has written into its dirty set
DirtyContents(th) == {th.dirty[p] : p \in TxnPages} \ {NoCopy}

Called(c, op, t, p, content) ==
    [c EXCEPT !.last = [op |-> op, thread |-> t, page |-> p, content |-> content]]

InitTxn ==
    /\ cc = CcIdle
    /\ wr = WrIdle
    /\ fs = FsIdle
    /\ er = ErIdle
    /\ fr = FrIdle
    /\ mo = MoIdle
    /\ db = DbIdle
    /\ tx = TxIdle
    /\ hist = HistIdle

TxnCreate(t, writing) ==
    /\ cc.th[t].state = "none"
    /\ cc.steps < MaxTxnSteps
    /\ cc' = [Called(cc, "create_transaction", t, 0, 0) EXCEPT
                 !.th[t] = [ThreadIdle EXCEPT !.state = IF writing THEN "write" ELSE "read"],
                 !.steps = @ + 1]
    /\ UNCHANGED <<fr, mo, db, tx, hist, er, fs, wr>>

TxnGetPage(t, p) ==
    /\ cc.th[t].state # "none"
    /\ cc.th[t].phase = "open"
    /\ cc' = Called(cc, "get_page", t, p, txn_get_page(cc, t, p))
    /\ UNCHANGED <<fr, mo, db, tx, hist, er, fs, wr>>

\* modify_page and the write of the caller into the copy it returned
TxnModifyPage(t, p) ==
    /\ cc.th[t].state = "write"
    /\ cc.th[t].phase = "open"
    /\ cc.steps < MaxTxnSteps
    /\ writer_mutex_free(cc.mutex, t)
    /\ cc' = [Called(cc, "modify_page", t, p, cc.next_content) EXCEPT
                 !.mutex = t,
                 !.th[t].dirty[p] = cc.next_content,
                 !.next_content = @ + 1,
                 !.steps = @ + 1]
    /\ UNCHANGED <<fr, mo, db, tx, hist, er, fs, wr>>

\* commit_transaction up to its first write_file
TxnCommit(t) ==
    /\ cc.th[t].state = "write"
    /\ cc.th[t].phase = "open"
    /\ cc.steps < MaxTxnSteps
    /\ LET pages == {p \in TxnPages : cc.th[t].dirty[p] # NoCopy}
       IN  cc' = [Called(cc, "commit_transaction", t, 0, 0) EXCEPT
                    !.th[t].commit_called = TRUE,
                    !.th[t].pending = pages,
                    !.th[t].phase = IF pages = {} THEN "open" ELSE "committing",
                    !.committed = @ \cup DirtyContents(cc.th[t]),
                    !.steps = @ + 1]
    /\ UNCHANGED <<fr, mo, db, tx, hist, er, fs, wr>>

\* one write_file of commit_transaction; after the last one (or a failed one)
\* commit_transaction returns
TxnCommitWrite(t, failed) ==
    /\ cc.th[t].phase = "committing"
    /\ \E p \in cc.th[t].pending :
          cc' = IF failed
                THEN [Called(cc, "write_file", t, p, 0) EXCEPT
                        !.th[t].pending = {}, !.th[t].phase = "open"]
                ELSE [Called(cc, "write_file", t, p, cc.th[t].dirty[p]) EXCEPT
                        !.file[p] = cc.th[t].dirty[p],
                        !.th[t].pending = @ \ {p},
                        !.th[t].phase = IF cc.th[t].pending = {p} THEN "open"
                                        ELSE "committing"]
    /\ UNCHANGED <<fr, mo, db, tx, hist, er, fs, wr>>

TxnClose(t) ==
    /\ cc.th[t].state # "none"
    /\ cc.th[t].phase = "open"
    /\ cc.steps < MaxTxnSteps
    /\ cc' = [Called(cc, "close_transaction", t, 0, 0) EXCEPT
                 !.th[t] = ThreadIdle,
                 !.mutex = IF @ = t THEN NoThread ELSE @,
                 !.discarded = @ \cup (DirtyContents(cc.th[t]) \ cc.committed),
                 !.steps = @ + 1]
    /\ UNCHANGED <<fr, mo, db, tx, hist, er, fs, wr>>

NextTxn ==
    \E t \in Threads :
        \/ \E writing \in BOOLEAN : TxnCreate(t, writing)
        \/ \E p \in TxnPages : TxnGetPage(t, p)
        \/ \E p \in TxnPages : TxnModifyPage(t, p)
        \/ TxnCommit(t)
        \/ \E failed \in BOOLEAN : TxnCommitWrite(t, failed)
        \/ TxnClose(t)

SpecTxn == InitTxn /\ [][NextTxn]_vars

\* the contents thread t may see without looking into another transaction:
\* the initial one, those of writers that called commit_transaction, and those
\* of its own dirty set
MayObserve(t) == {0} \cup cc.committed \cup DirtyContents(cc.th[t])

\* C23: page modifications made inside a writing transaction are never observed
\* by get_page in any other transaction before that writer's commit, and if the
\* writer is closed without commit they are never observed by any transaction
\* and never reach the file.
C23_UncommittedPagesInvisible ==
    /\ cc.last.op = "get_page" =>
          /\ cc.last.content \in MayObserve(cc.last.thread)
          /\ cc.last.content \notin cc.discarded
    /\ \A p \in TxnPages :
          /\ cc.file[p] \in {0} \cup cc.committed
          /\ cc.file[p] \notin cc.discarded

\* a transaction reads a page of which another transaction holds a modified
\* copy it has not committed, after some writer was closed without commit
C23_Witness ==
    /\ cc.last.op = "get_page"
    /\ cc.discarded # {}
    /\ \E w \in Threads \ {cc.last.thread} :
          /\ cc.th[w].dirty[cc.last.page] # NoCopy
          /\ ~cc.th[w].commit_called

\* the writing transactions with modified pages in flight
ActiveWriters ==
    {t \in Threads :
        /\ cc.th[t].state = "write"
        /\ (DirtyContents(cc.th[t]) # {} \/ cc.th[t].phase = "committing")}

\* C24: in every interleaving of threads that create, use, commit and close
\* transactions on one database at most one writing transaction is active at
\* any time, and read calls are never blocked by it: a thread can always open a
\* read transaction and a transaction can always call get_page.
C24_OneWriterReadersNotBlocked ==
    /\ Cardinality(ActiveWriters) <= 1
    /\ \A t \in Threads :
          /\ (cc.th[t].state = "none" /\ cc.steps < MaxTxnSteps)
                => ENABLED TxnCreate(t, FALSE)
          /\ (cc.th[t].state # "none" /\ cc.th[t].phase = "open")
                => \A p \in TxnPages : ENABLED TxnGetPage(t, p)

\* one writer holds the mutex, a second writing transaction waits for it and a
\* read transaction has just read a page
C24_Witness ==
    /\ cc.last.op = "get_page"
    /\ cc.th[cc.last.thread].state = "read"
    /\ \E w, b \in Threads :
          /\ w \in ActiveWriters
          /\ cc.mutex = w
          /\ b # w
          /\ cc.th[b].state = "write"
          /\ \A p \in TxnPages : ~ENABLED TxnModifyPage(b, p)
          /\ cc.steps < MaxTxnSteps

=============================================================================
